---- MODULE Spec2Model ----
(***************************************************************************)
(* Client-side workflow of the FastAPI project generator.                  *)
(*                                                                         *)
(*   Home        (src/src/app/page.tsx)      the Workflow Controller       *)
(*   CPSPreview  (src/unnamed/part_000)      the Specification Editor/Gate *)
(*   CodePreview (src/src/components/CodePreview.tsx)  the File Browser    *)
(*                                                                         *)
(* Every user event, and every arrival of a response, is one action.  An   *)
(* action is the whole React update: the handler's state setters, the      *)
(* re-render they cause (which view is mounted, line 129 of page.tsx), the *)
(* mount-time state of a component that appears, and the effects that run  *)
(* after the render (the auto-validation of CPSPreview).                   *)
(*                                                                         *)
(* Representation.                                                         *)
(*   null            the empty sequence None; a present value x is <<x>>.  *)
(*   File Map        a sequence of [path, content] entries with distinct   *)
(*                   paths: a JavaScript object keeps its keys in          *)
(*                   insertion order, and Object.keys observes that order. *)
(*   Specification   a tree: Leaf(v) or Group(kids), kids a function from  *)
(*                   keys to trees; leaf values are strings ("true",       *)
(*                   "false", "openai", ...).                              *)
(*   requests        the controller's requests in flight are the sequence  *)
(*                   req of their endpoints; export requests are counted   *)
(*                   in exports; validation requests in preflight.  What a *)
(*                   request carried is recorded in sent by the step that  *)
(*                   issued it (the client never reads it again).          *)
(*   last, sent,     history variables: the operation of the controller    *)
(*   recv, before    the last step performed ("none" for a step of the     *)
(*                   editor or the file browser alone), the requests the   *)
(*                   step issued, the response it received, and the values *)
(*                   held when the generate request in flight was issued.  *)
(*   The General / RAG-Only switch (mode) only prefixes the analyze text   *)
(*   and is left out.                                                      *)
(*                                                                         *)
(* Specifications.                                                         *)
(*   Spec              the page, the editor staying on its Config tab      *)
(*   SpecEditor        the editor's tabs and analyses, the page staying in *)
(*                     the specification view                              *)
(*   SpecUpdateNested  updateNested applied to a Specification, a path and *)
(*                     a value drawn from bounded sets                     *)
(*   SpecCodePreview   the first render of CodePreview (explorer tree,     *)
(*                     status index, first selection) for a File Map and a *)
(*                     Diff Result drawn from bounded sets                 *)
(***************************************************************************)
EXTENDS Integers, Sequences, FiniteSets, TLC

VARIABLES
    cps,          \* Home: Specification or null                 page.tsx:10
    files,        \* Home: File Map                              page.tsx:11
    loading,      \* Home: busy flag                             page.tsx:12
    error,        \* Home: last error or null                    page.tsx:13
    feedback,     \* Home: pending feedback text                 page.tsx:15
    oldFiles,     \* Home: previous File Map or null             page.tsx:36
    diff,         \* Home: Diff Result or null                   page.tsx:37
    validation,   \* CPSPreview: validation result or null       part_000:16
    selectedPath, \* CodePreview: selected path or null          CodePreview.tsx:121
    viewMode,     \* CodePreview: "code" or "diff"               CodePreview.tsx:122
    req,          \* analyze/generate/regenerate/refine requests in flight
    exports,      \* number of export requests in flight
    preflight,    \* validation requests in flight
    last,         \* history: controller operation of the last step
    sent,         \* history: requests issued by the last step
    recv,         \* history: response the last step received, or null
    before,       \* history: what Home held when the generate request in
                  \*          flight (or just answered) was issued, or null
    activeTab,    \* CPSPreview: the tab shown                   part_000:13
    costs,        \* CPSPreview: cost estimate or null           part_000:15
    openapi,      \* CPSPreview: interface preview or null       part_000:17
    analyzing,    \* CPSPreview: an analysis is running          part_000:18
    analyses,     \* runAnalysis calls whose fetch is in flight
    input,        \* the arguments of a function applied on its own
    output        \* its result, or null before it is applied

vars == <<cps, files, loading, error, feedback, oldFiles, diff, validation,
          selectedPath, viewMode, req, exports, preflight, last, sent, recv,
          before, activeTab, costs, openapi, analyzing, analyses, input,
          output>>

homeVars == <<cps, files, loading, error, feedback, oldFiles, diff>>

editorVars == <<activeTab, costs, openapi, analyzing, analyses>>

pureVars == <<input, output>>

workflowVars == <<cps, files, loading, error, feedback, oldFiles, diff,
                  validation, selectedPath, viewMode, req, exports, preflight,
                  last, sent, recv, before, activeTab, costs, openapi,
                  analyzing, analyses>>

-----------------------------------------------------------------------------
(* Bounds of the model *)

\* requests of the controller that may be in flight at once (the guards of
\* the code keep it at one; the bound only stops a model without them)
MaxInflight == 2
\* export requests that may be in flight at once
MaxExports == 1
\* superseded validation requests that may still be in flight
MaxStale == 1
\* longest field path given to updateNested on its own
MaxPathLen == 3
\* runAnalysis calls that may be in flight at once
MaxAnalyses == 2
\* File Map keys and Diff Result entries given to CodePreview on its own
MaxPaths == 3

-----------------------------------------------------------------------------
(* null and present values *)

None == <<>>
Some(x) == <<x>>
Val(o) == o[1]

-----------------------------------------------------------------------------
(* File Maps *)

Entry(p, c) == [path |-> p, content |-> c]

\* Object.keys(fm)
Keys(fm) == [i \in 1..Len(fm) |-> fm[i].path]

KeySet(fm) == {fm[i].path : i \in 1..Len(fm)}

\* fm[p], for p a key of fm
Get(fm, p) == fm[CHOOSE i \in 1..Len(fm) : fm[i].path = p].content

\* fm[p] || ""
GetOrEmpty(fm, p) == IF p \in KeySet(fm) THEN Get(fm, p) ELSE ""

\* { ...fm, [p]: c }: an existing key keeps its place, a new key goes last
Put(fm, p, c) ==
    IF p \in KeySet(fm)
    THEN [i \in 1..Len(fm) |-> IF fm[i].path = p THEN Entry(p, c) ELSE fm[i]]
    ELSE Append(fm, Entry(p, c))

-----------------------------------------------------------------------------
(* Paths.  A path "a/b/c.py" is the sequence <<"a", "b", "c.py">> of its     *)
(* '/'-separated segments.                                                 *)

\* name.endsWith(suffix) for the file names of the model
NameEndsWith(name, suffix) ==
    \/ name = suffix
    \/ <<name, suffix>> \in {<<"OLD_README.md", "README.md">>,
                             <<"test_main.py", "main.py">>}

\* p.endsWith(suffix), suffix without '/': decided by the last segment
EndsWith(p, suffix) == Len(p) > 0 /\ NameEndsWith(p[Len(p)], suffix)

\* candidates.find(p => p.endsWith(suffix)), as an index; 0 when none does
FindEndingWith(candidates, suffix) ==
    IF \E i \in 1..Len(candidates) : EndsWith(candidates[i], suffix)
    THEN CHOOSE i \in 1..Len(candidates) :
            /\ EndsWith(candidates[i], suffix)
            /\ \A j \in 1..(i - 1) : ~EndsWith(candidates[j], suffix)
    ELSE 0

\* mutant: main.py is looked for before README.md
Preferred_MainFirst(fm) ==
    LET candidates == Keys(fm)
        r == FindEndingWith(candidates, "README.md")
        m == FindEndingWith(candidates, "main.py")
    IN  IF m # 0 THEN candidates[m]
        ELSE IF r # 0 THEN candidates[r]
        ELSE candidates[1]

\* the initial-selection policy, for a non-empty File Map
Preferred(fm) ==
    LET candidates == Keys(fm)
        r == FindEndingWith(candidates, "README.md")
        m == FindEndingWith(candidates, "main.py")
    IN  IF r # 0 THEN candidates[r]
        ELSE IF m # 0 THEN candidates[m]
        ELSE candidates[1]

-----------------------------------------------------------------------------
(* Specifications *)

Leaf(v) == [kind |-> "leaf", val |-> v]
Group(kids) == [kind |-> "group", kids |-> kids]

\* JavaScript truthiness of a tree: an object is truthy, false and "" are not
Truthy(node) == node.kind = "group" \/ node.val \notin {"false", ""}

\* obj[k] = v
SetKey(kids, k, v) ==
    [x \in (DOMAIN kids) \cup {k} |-> IF x = k THEN v ELSE kids[x]]

\* The walk of updateNested below the shallow copy.  ok is FALSE when the walk
\* reaches a truthy primitive before the last key: assigning a property on a
\* primitive throws a TypeError in module (strict) code, and setCps is not
\* reached.
RECURSIVE SetPath(_, _, _)
SetPath(kids, path, value) ==
    LET k == Head(path) IN
    IF Len(path) = 1
    THEN [ok |-> TRUE, kids |-> SetKey(kids, k, value)]
    ELSE LET child == IF k \in DOMAIN kids /\ Truthy(kids[k])
                      THEN kids[k]
                      ELSE Group(<<>>)
         IN  IF child.kind = "leaf"
             THEN [ok |-> FALSE, kids |-> kids]
             ELSE LET r == SetPath(child.kids, Tail(path), value)
                  IN  [ok |-> r.ok, kids |-> SetKey(kids, k, Group(r.kids))]

\* the field of a Specification at a path: the tree there, or null when a
\* key of the path is missing or a leaf stands above the end of the path
RECURSIVE FieldAt(_, _)
FieldAt(node, path) ==
    IF Len(path) = 0 THEN Some(node)
    ELSE IF node.kind = "group" /\ Head(path) \in DOMAIN node.kids
         THEN FieldAt(node.kids[Head(path)], Tail(path))
         ELSE None

\* cps.generation_options?.openapi_first, as a condition
OpenapiFirst(spec) ==
    LET f == FieldAt(spec, <<"generation_options", "openapi_first">>)
    IN  f # None /\ Truthy(Val(f))

-----------------------------------------------------------------------------
(* What the collaborators may answer, and what the user may type *)

SpecA == Group([llm_provider |-> Leaf("openai"),
                generation_options |-> Group([openapi_first |-> Leaf("false")])])

SpecB == Group([llm_provider |-> Leaf("azure_openai"),
                features |-> Group([chat |-> Leaf("false")])])

\* Specifications the extraction collaborator returns
ServerSpecs == {SpecA, SpecB}

\* the field edits of the Config tab the model draws from
UIEdits == {[path |-> <<"generation_options", "openapi_first">>, value |-> Leaf("true")],
            [path |-> <<"llm_provider", "type">>, value |-> Leaf("local")]}

FM0 == <<>>
FM1 == <<Entry(<<"main.py">>, "v1")>>
FM2 == <<Entry(<<"main.py">>, "v2"), Entry(<<"README.md">>, "doc")>>

\* File Maps the generation and refinement collaborators return
ServerFileMaps == {FM0, FM1, FM2}

D1 == [files |-> <<[path |-> <<"main.py">>, status |-> "modified"],
                   [path |-> <<"README.md">>, status |-> "added"]>>,
       summary |-> [added |-> 1, modified |-> 1, removed |-> 0]]

\* Diff Results the regeneration collaborator returns
ServerDiffs == {D1}

\* the error / detail text of a collaborator-reported failure
CollabErrors == {"boom"}

\* err.message of a failed fetch
TransportError == "Failed to fetch"

\* JSON.stringify(detail) of a string: the text in double quotes
JsonStringify(s) == IF s = "boom" THEN "\"boom\"" ELSE "\"?\""

\* "Export failed: " + err.message
ExportFailed(msg) == IF msg = TransportError THEN "Export failed: Failed to fetch"
                     ELSE "Export failed: ?"

\* texts of the feedback box, and contents typed into the editor
FeedbackTexts == {"", "fix it"}
EditContents == {"edited"}
AnalyzeTexts == {"build a todo API"}

\* what the cost collaborator and the interface-preview collaborator answer
\* for the Specification they are sent
CostsOf(spec) == [estimate_for |-> spec]
OpenapiOf(spec) == [preview_for |-> spec]

-----------------------------------------------------------------------------
(* Requests *)

Request(endpoint, body) == [endpoint |-> endpoint, body |-> body]

\* req without its i-th element
Drop(seq, i) == [j \in 1..(Len(seq) - 1) |-> IF j < i THEN seq[j] ELSE seq[j + 1]]

\* how many requests to endpoint e are in flight
InFlight(e) == Cardinality({i \in 1..Len(req) : req[i] = e})

\* the snapshot in before is kept while a generate request is in flight
KeptBefore ==
    IF \E i \in 1..Len(req') : req'[i] \in {"generate", "regenerate"}
    THEN before
    ELSE None

\* Validation requests in flight.  stale counts the requests that a later
\* request has superseded; latest is the state of the most recently issued
\* request ("none", "inflight", "answered", "failed"); stored tells which
\* request the stored validation result answers ("none", "latest",
\* "superseded").
NoPreflight == [stale |-> 0, latest |-> "none", stored |-> "none"]

\* runValidation is called: the fetch goes out
IssuePreflight(pf) ==
    [stale |-> pf.stale + (IF pf.latest = "inflight" THEN 1 ELSE 0),
     latest |-> "inflight",
     stored |-> IF pf.stored = "none" THEN "none" ELSE "superseded"]

-----------------------------------------------------------------------------
(* Rendering *)

\* page.tsx line 129: the specification view (ProjectInput and CPSPreview)
\* when the File Map is empty, the files view (CodePreview, Back, Download,
\* Review & Fix) otherwise
View(fm) == IF Len(fm) = 0 THEN "spec" ELSE "files"

\* The Workflow State as the page shows it: the files view is rendered for a
\* non-empty File Map (line 129), with the Diff Result handed to CodePreview
\* (line 180); the specification view shows CPSPreview's editor once a
\* Specification is held (line 155)
WorkflowState ==
    IF View(files) = "files"
    THEN (IF diff # None THEN "Regenerated" ELSE "FilesReady")
    ELSE (IF cps # None THEN "SpecReady" ELSE "Idle")

\* page.tsx line 150: {error && <div>{error}</div>}, an element of the
\* specification view; the files view (lines 159-206) has no such element
ErrorShown == View(files) = "spec" /\ error # None

\* mutant: the useMemo selects the preferred path at every render
InitialSelection_EveryRender ==
    IF View(files') = "spec" THEN None ELSE Some(Preferred(files'))

\* CodePreview lines 121-131, as the selection after a render: null when
\* CodePreview is not mounted, the preferred path when it has just mounted
\* or nothing is selected, the selection held otherwise
InitialSelection ==
    IF View(files') = "spec" THEN None
    ELSE IF View(files) = "spec" \/ selectedPath = None
         THEN Some(Preferred(files'))
         ELSE selectedPath

\* The render that follows a handler, and the effects after it.  cpsSet tells
\* that the handler called setCps (with a new object); handlerSent are the
\* requests the handler itself issued.
\*   CPSPreview is mounted in the specification view only: its state starts
\*   at null when it mounts and is gone when it unmounts (a response for an
\*   unmounted instance sets nothing).  Its effect on [cps] calls
\*   runValidation after the mount and after every change of cps, when cps is
\*   not null.
\*   CodePreview is mounted in the files view only; its useMemo selects the
\*   preferred path whenever nothing is selected.
Render(cpsSet, handlerSent) ==
    LET shown == View(files)
        next == View(files')
        mounts == shown = "files" /\ next = "spec"
        validates == next = "spec" /\ cps' # None /\ (mounts \/ cpsSet)
        kept == IF mounts THEN NoPreflight ELSE preflight
    IN  /\ validation' = IF next = "files" \/ mounts THEN None ELSE validation
        /\ preflight' = IF next = "files" THEN NoPreflight
                        ELSE IF validates THEN IssuePreflight(kept)
                        ELSE kept
        /\ preflight'.stale <= MaxStale
        /\ selectedPath' = InitialSelection
        /\ viewMode' = IF next = "spec" \/ shown = "spec" THEN "code" ELSE viewMode
        /\ sent' = handlerSent \o
                   (IF validates
                    THEN <<Request("preflight", [cps |-> Val(cps')])>>
                    ELSE <<>>)
        /\ activeTab' = IF next = "files" \/ mounts THEN "config" ELSE activeTab
        /\ costs' = IF next = "files" \/ mounts THEN None ELSE costs
        /\ openapi' = IF next = "files" \/ mounts THEN None ELSE openapi
        /\ analyzing' = IF next = "files" \/ mounts THEN FALSE ELSE analyzing
        /\ analyses' = IF next = "files" \/ mounts THEN <<>> ELSE analyses

-----------------------------------------------------------------------------
(* Initial state: the values of the useState calls *)

\* the workflow as the page loads
Mounted ==
    /\ cps = None
    /\ files = <<>>
    /\ loading = FALSE
    /\ error = None
    /\ feedback = ""
    /\ oldFiles = None
    /\ diff = None
    /\ validation = None
    /\ selectedPath = None
    /\ viewMode = "code"
    /\ req = <<>>
    /\ exports = 0
    /\ preflight = NoPreflight
    /\ last = "init"
    /\ sent = <<>>
    /\ recv = None
    /\ before = None
    /\ activeTab = "config"
    /\ costs = None
    /\ openapi = None
    /\ analyzing = FALSE
    /\ analyses = <<>>

Init ==
    /\ Mounted
    /\ input = None
    /\ output = None

-----------------------------------------------------------------------------
(* Home: analyze *)

\* ProjectInput disables its trigger while the loading flag it is given is set
AnalyzeDisabled == loading

handleAnalyze(text) ==
    /\ View(files) = "spec"
    /\ ~AnalyzeDisabled
    /\ Len(req) < MaxInflight
    /\ loading' = TRUE
    /\ error' = None
    /\ req' = Append(req, "analyze")
    /\ UNCHANGED <<cps, files, feedback, oldFiles, diff, exports>>
    /\ Render(FALSE, <<Request("analyze", [text |-> text])>>)
    /\ last' = "analyze"
    /\ recv' = None
    /\ before' = KeptBefore
    /\ UNCHANGED pureVars

\* mutant: a reported failure drops the held Specification
AnalyzeResponse_ClearsCps(i, data) ==
    /\ req[i] = "analyze"
    /\ req' = Drop(req, i)
    /\ IF data.error # None
       THEN /\ error' = Some(Val(data.error))
            /\ cps' = None
            /\ last' = "analyzeFail"
       ELSE /\ cps' = data.spec
            /\ error' = error
            /\ last' = "analyzeOk"
    /\ recv' = Some(data)
    /\ before' = KeptBefore
    /\ UNCHANGED pureVars
    /\ loading' = FALSE
    /\ UNCHANGED <<files, feedback, oldFiles, diff, exports>>
    /\ Render(data.error = None, <<>>)

\* mutant: a new Specification starts over without a previous File Map
AnalyzeResponse_ResetsOldFiles(i, data) ==
    /\ req[i] = "analyze"
    /\ req' = Drop(req, i)
    /\ IF data.error # None
       THEN /\ error' = Some(Val(data.error))
            /\ cps' = cps
            /\ oldFiles' = oldFiles
            /\ last' = "analyzeFail"
            /\ recv' = Some(data)
            /\ before' = KeptBefore
            /\ UNCHANGED pureVars
       ELSE /\ cps' = data.spec
            /\ error' = error
            /\ oldFiles' = None
            /\ last' = "analyzeOk"
            /\ recv' = Some(data)
            /\ before' = KeptBefore
            /\ UNCHANGED pureVars
    /\ loading' = FALSE
    /\ UNCHANGED <<files, feedback, diff, exports>>
    /\ Render(data.error = None, <<>>)

\* the response arrived and parsed: data.error throws into the catch
AnalyzeResponse(i, data) ==
    /\ req[i] = "analyze"
    /\ req' = Drop(req, i)
    /\ IF data.error # None
       THEN /\ error' = Some(Val(data.error))
            /\ cps' = cps
            /\ last' = "analyzeFail"
            /\ recv' = Some(data)
            /\ before' = KeptBefore
            /\ UNCHANGED pureVars
       ELSE /\ cps' = data.spec
            /\ error' = error
            /\ last' = "analyzeOk"
            /\ recv' = Some(data)
            /\ before' = KeptBefore
            /\ UNCHANGED pureVars
    /\ loading' = FALSE
    /\ UNCHANGED <<files, feedback, oldFiles, diff, exports>>
    /\ Render(data.error = None, <<>>)

\* mutant: a rejected fetch drops the held Specification
AnalyzeTransportFail_ClearsCps(i) ==
    /\ req[i] = "analyze"
    /\ req' = Drop(req, i)
    /\ error' = Some(TransportError)
    /\ loading' = FALSE
    /\ cps' = None
    /\ UNCHANGED <<files, feedback, oldFiles, diff, exports>>
    /\ Render(FALSE, <<>>)
    /\ last' = "analyzeFail"
    /\ recv' = Some([transport |-> TransportError])
    /\ before' = KeptBefore
    /\ UNCHANGED pureVars

\* fetch rejected: the catch records err.message
AnalyzeTransportFail(i) ==
    /\ req[i] = "analyze"
    /\ req' = Drop(req, i)
    /\ error' = Some(TransportError)
    /\ loading' = FALSE
    /\ UNCHANGED <<cps, files, feedback, oldFiles, diff, exports>>
    /\ Render(FALSE, <<>>)
    /\ last' = "analyzeFail"
    /\ recv' = Some([transport |-> TransportError])
    /\ before' = KeptBefore
    /\ UNCHANGED pureVars

AnalyzeResponses ==
    {[error |-> None, spec |-> Some(s)] : s \in ServerSpecs}
    \cup {[error |-> Some(e), spec |-> None] : e \in CollabErrors}

-----------------------------------------------------------------------------
(* Home: generate and regenerate *)

\* mutant: the button ignores the loading flag
GenerateDisabled_IgnoresLoading == validation # None /\ ~Val(validation).valid

\* CPSPreview line 274: disabled={loading || (validation && !validation.valid)}
GenerateDisabled == loading \/ (validation # None /\ ~Val(validation).valid)

\* mutant: the branch looks at the File Map instead of the previous File Map
GenerateRequest_ByFiles ==
    IF Len(files) > 0
    THEN Request("regenerate", [cps |-> Val(cps), old_files |-> files])
    ELSE Request("generate", Val(cps))

\* page.tsx lines 45-46: the endpoint and the body of the request
GenerateRequest ==
    IF oldFiles # None
    THEN Request("regenerate", [cps |-> Val(cps), old_files |-> Val(oldFiles)])
    ELSE Request("generate", Val(cps))

\* mutant: the Diff Result is not cleared when the request is issued
handleGenerate_KeepsDiff ==
    /\ View(files) = "spec"
    /\ cps # None
    /\ ~GenerateDisabled
    /\ Len(req) < MaxInflight
    /\ loading' = TRUE
    /\ error' = None
    /\ diff' = diff
    /\ req' = Append(req, GenerateRequest.endpoint)
    /\ UNCHANGED <<cps, files, feedback, oldFiles, exports>>
    /\ Render(FALSE, <<GenerateRequest>>)
    /\ last' = "generate"
    /\ recv' = None
    /\ before' = Some([cps |-> cps, files |-> files,
                        oldFiles |-> oldFiles, diff |-> diff])
    /\ UNCHANGED pureVars

\* the Generate Project button exists when CPSPreview shows a Specification
handleGenerate ==
    /\ View(files) = "spec"
    /\ cps # None
    /\ ~GenerateDisabled
    /\ Len(req) < MaxInflight
    /\ loading' = TRUE
    /\ error' = None
    /\ diff' = None
    /\ req' = Append(req, GenerateRequest.endpoint)
    /\ UNCHANGED <<cps, files, feedback, oldFiles, exports>>
    /\ Render(FALSE, <<GenerateRequest>>)
    /\ last' = "generate"
    /\ recv' = None
    /\ before' = Some([cps |-> cps, files |-> files,
                        oldFiles |-> oldFiles, diff |-> diff])
    /\ UNCHANGED pureVars

\* page.tsx line 65: data.files || data.  A payload without a files key is
\* the File Map itself (its keys are in data.rest).
NormalizeFiles(data) == IF data.files # None THEN Val(data.files) ELSE data.rest

\* page.tsx lines 53-66, then the finally block
GenerateResponse(i, data) ==
    /\ req[i] \in {"generate", "regenerate"}
    /\ req' = Drop(req, i)
    /\ IF data.detail # None
       THEN /\ error' = Some(JsonStringify(Val(data.detail)))
            /\ UNCHANGED <<files, diff>>
            /\ last' = "generateFail"
            /\ recv' = Some(data)
            /\ before' = before
            /\ UNCHANGED pureVars
       ELSE /\ IF data.diff # None
               THEN /\ files' = Val(data.files)
                    /\ diff' = data.diff
               ELSE /\ files' = NormalizeFiles(data)
                    /\ diff' = diff
            /\ error' = error
            /\ last' = "generateOk"
            /\ recv' = Some(data)
            /\ before' = before
            /\ UNCHANGED pureVars
    /\ loading' = FALSE
    /\ UNCHANGED <<cps, feedback, oldFiles, exports>>
    /\ Render(FALSE, <<>>)

\* mutant: the loading flag is not cleared when the fetch rejects
GenerateTransportFail_KeepsLoading(i) ==
    /\ req[i] \in {"generate", "regenerate"}
    /\ req' = Drop(req, i)
    /\ error' = Some(TransportError)
    /\ loading' = loading
    /\ UNCHANGED <<cps, files, feedback, oldFiles, diff, exports>>
    /\ Render(FALSE, <<>>)
    /\ last' = "generateFail"
    /\ recv' = Some([transport |-> TransportError])
    /\ before' = before
    /\ UNCHANGED pureVars

\* the fetch rejects: the catch records err.message, then the finally block
GenerateTransportFail(i) ==
    /\ req[i] \in {"generate", "regenerate"}
    /\ req' = Drop(req, i)
    /\ error' = Some(TransportError)
    /\ loading' = FALSE
    /\ UNCHANGED <<cps, files, feedback, oldFiles, diff, exports>>
    /\ Render(FALSE, <<>>)
    /\ last' = "generateFail"
    /\ recv' = Some([transport |-> TransportError])
    /\ before' = before
    /\ UNCHANGED pureVars

\* what each collaborator may answer: first generation { files } or the bare
\* File Map, regeneration { files, diff }, either of them { detail }
GenerateResponses(endpoint) ==
    {[detail |-> Some(e), files |-> None, diff |-> None, rest |-> <<>>] :
        e \in CollabErrors}
    \cup
    (IF endpoint = "regenerate"
     THEN {[detail |-> None, files |-> Some(fm), diff |-> Some(d), rest |-> <<>>] :
              fm \in ServerFileMaps, d \in ServerDiffs}
     ELSE {[detail |-> None, files |-> Some(fm), diff |-> None, rest |-> <<>>] :
              fm \in ServerFileMaps}
          \cup
          {[detail |-> None, files |-> None, diff |-> None, rest |-> fm] :
              fm \in ServerFileMaps})

-----------------------------------------------------------------------------
(* Home: back *)

\* mutant: setDiff(null) is forgotten
handleBack_KeepsDiff ==
    /\ View(files) = "files"
    /\ oldFiles' = Some(files)
    /\ files' = <<>>
    /\ UNCHANGED <<cps, loading, error, feedback, diff, req, exports>>
    /\ Render(FALSE, <<>>)
    /\ last' = "back"
    /\ recv' = None
    /\ before' = KeptBefore
    /\ UNCHANGED pureVars

handleBack ==
    /\ View(files) = "files"
    /\ oldFiles' = Some(files)
    /\ files' = <<>>
    /\ diff' = None
    /\ UNCHANGED <<cps, loading, error, feedback, req, exports>>
    /\ Render(FALSE, <<>>)
    /\ last' = "back"
    /\ recv' = None
    /\ before' = KeptBefore
    /\ UNCHANGED pureVars

-----------------------------------------------------------------------------
(* Home: refine *)

\* page.tsx line 193: the feedback box
setFeedback(text) ==
    /\ View(files) = "files"
    /\ text # feedback
    /\ feedback' = text
    /\ UNCHANGED <<cps, files, loading, error, oldFiles, diff, req, exports>>
    /\ Render(FALSE, <<>>)
    /\ last' = "none"
    /\ recv' = None
    /\ before' = KeptBefore
    /\ UNCHANGED pureVars

\* page.tsx line 199: disabled={loading || !feedback}
RefineDisabled == loading \/ feedback = ""

\* mutant: neither the button nor the handler looks at the feedback
handleRefine_NoEmptyCheck ==
    /\ View(files) = "files"
    /\ UNCHANGED <<cps, files, feedback, oldFiles, diff, exports>>
    /\ IF loading
       THEN /\ UNCHANGED <<loading, error, req>>
            /\ Render(FALSE, <<>>)
            /\ last' = "refineRejected"
            /\ recv' = None
            /\ before' = KeptBefore
            /\ UNCHANGED pureVars
       ELSE /\ Len(req) < MaxInflight
            /\ loading' = TRUE
            /\ error' = None
            /\ req' = Append(req, "refine")
            /\ Render(FALSE, <<Request("refine",
                   [cps |-> cps, files |-> files, feedback |-> feedback])>>)
            /\ last' = "refine"
            /\ recv' = None
            /\ before' = KeptBefore
            /\ UNCHANGED pureVars

\* A click on Refine Code.  A disabled button runs no handler; handleRefine
\* itself returns at once when the feedback is empty (line 81).
handleRefine ==
    /\ View(files) = "files"
    /\ UNCHANGED <<cps, files, feedback, oldFiles, diff, exports>>
    /\ IF RefineDisabled \/ feedback = ""
       THEN /\ UNCHANGED <<loading, error, req>>
            /\ Render(FALSE, <<>>)
            /\ last' = "refineRejected"
            /\ recv' = None
            /\ before' = KeptBefore
            /\ UNCHANGED pureVars
       ELSE /\ Len(req) < MaxInflight
            /\ loading' = TRUE
            /\ error' = None
            /\ req' = Append(req, "refine")
            /\ Render(FALSE, <<Request("refine",
                   [cps |-> cps, files |-> files, feedback |-> feedback])>>)
            /\ last' = "refine"
            /\ recv' = None
            /\ before' = KeptBefore
            /\ UNCHANGED pureVars

\* mutant: a successful refine also demotes the File Map it replaces
RefineResponse_DemotesFiles(i, data) ==
    /\ req[i] = "refine"
    /\ req' = Drop(req, i)
    /\ IF data.error # None
       THEN /\ error' = Some(Val(data.error))
            /\ UNCHANGED <<files, feedback, oldFiles>>
            /\ last' = "refineFail"
       ELSE /\ files' = Val(data.files)
            /\ oldFiles' = Some(files)
            /\ feedback' = ""
            /\ error' = error
            /\ last' = "refineOk"
    /\ recv' = Some(data)
    /\ before' = KeptBefore
    /\ UNCHANGED pureVars
    /\ loading' = FALSE
    /\ UNCHANGED <<cps, diff, exports>>
    /\ Render(FALSE, <<>>)

\* mutant: setFeedback("") is forgotten after a successful refine
RefineResponse_KeepsFeedback(i, data) ==
    /\ req[i] = "refine"
    /\ req' = Drop(req, i)
    /\ IF data.error # None
       THEN /\ error' = Some(Val(data.error))
            /\ UNCHANGED <<files, feedback>>
            /\ last' = "refineFail"
            /\ recv' = Some(data)
            /\ before' = KeptBefore
            /\ UNCHANGED pureVars
       ELSE /\ files' = Val(data.files)
            /\ feedback' = feedback
            /\ error' = error
            /\ last' = "refineOk"
            /\ recv' = Some(data)
            /\ before' = KeptBefore
            /\ UNCHANGED pureVars
    /\ loading' = FALSE
    /\ UNCHANGED <<cps, oldFiles, diff, exports>>
    /\ Render(FALSE, <<>>)

\* page.tsx lines 90-97, then the finally block
RefineResponse(i, data) ==
    /\ req[i] = "refine"
    /\ req' = Drop(req, i)
    /\ IF data.error # None
       THEN /\ error' = Some(Val(data.error))
            /\ UNCHANGED <<files, feedback>>
            /\ last' = "refineFail"
            /\ recv' = Some(data)
            /\ before' = KeptBefore
            /\ UNCHANGED pureVars
       ELSE /\ files' = Val(data.files)
            /\ feedback' = ""
            /\ error' = error
            /\ last' = "refineOk"
            /\ recv' = Some(data)
            /\ before' = KeptBefore
            /\ UNCHANGED pureVars
    /\ loading' = FALSE
    /\ UNCHANGED <<cps, oldFiles, diff, exports>>
    /\ Render(FALSE, <<>>)

RefineTransportFail(i) ==
    /\ req[i] = "refine"
    /\ req' = Drop(req, i)
    /\ error' = Some(TransportError)
    /\ loading' = FALSE
    /\ UNCHANGED <<cps, files, feedback, oldFiles, diff, exports>>
    /\ Render(FALSE, <<>>)
    /\ last' = "refineFail"
    /\ recv' = Some([transport |-> TransportError])
    /\ before' = KeptBefore
    /\ UNCHANGED pureVars

RefineResponses ==
    {[error |-> None, files |-> Some(fm)] : fm \in ServerFileMaps}
    \cup {[error |-> Some(e), files |-> None] : e \in CollabErrors}

-----------------------------------------------------------------------------
(* Home: export *)

\* mutant: the export sets the loading flag like the other actions
handleDownload_SetsLoading ==
    /\ View(files) = "files"
    /\ exports < MaxExports
    /\ exports' = exports + 1
    /\ loading' = TRUE
    /\ UNCHANGED <<cps, files, error, feedback, oldFiles, diff, req>>
    /\ Render(FALSE, <<Request("export", [files |-> files])>>)
    /\ last' = "export"
    /\ recv' = None
    /\ before' = KeptBefore
    /\ UNCHANGED pureVars

handleDownload ==
    /\ View(files) = "files"
    /\ exports < MaxExports
    /\ exports' = exports + 1
    /\ UNCHANGED <<cps, files, loading, error, feedback, oldFiles, diff, req>>
    /\ Render(FALSE, <<Request("export", [files |-> files])>>)
    /\ last' = "export"
    /\ recv' = None
    /\ before' = KeptBefore
    /\ UNCHANGED pureVars

\* the archive arrived: the browser is handed the download
ExportResponse ==
    /\ exports > 0
    /\ exports' = exports - 1
    /\ UNCHANGED <<cps, files, loading, error, feedback, oldFiles, diff, req>>
    /\ Render(FALSE, <<>>)
    /\ last' = "exportOk"
    /\ recv' = None
    /\ before' = KeptBefore
    /\ UNCHANGED pureVars

ExportTransportFail ==
    /\ exports > 0
    /\ exports' = exports - 1
    /\ error' = Some(ExportFailed(TransportError))
    /\ UNCHANGED <<cps, files, loading, feedback, oldFiles, diff, req>>
    /\ Render(FALSE, <<>>)
    /\ last' = "exportFail"
    /\ recv' = Some([transport |-> TransportError])
    /\ before' = KeptBefore
    /\ UNCHANGED pureVars

-----------------------------------------------------------------------------
(* CodePreview *)

\* the paths of the explorer: the File Map's keys and the Diff Result's paths
AllPaths == KeySet(files) \cup
            (IF diff # None
             THEN {Val(diff).files[i].path : i \in 1..Len(Val(diff).files)}
             ELSE {})

\* a click on a file of the explorer
setSelectedPath(p) ==
    /\ View(files) = "files"
    /\ p \in AllPaths
    /\ Some(p) # selectedPath
    /\ selectedPath' = Some(p)
    /\ UNCHANGED <<homeVars, validation, viewMode, req, exports, preflight>>
    /\ sent' = <<>>
    /\ last' = "none"
    /\ recv' = None
    /\ before' = KeptBefore
    /\ UNCHANGED editorVars
    /\ UNCHANGED pureVars

\* mutant: the Diff button is there without a previous File Map
setViewMode_Always(m) ==
    /\ View(files) = "files"
    /\ m # viewMode
    /\ viewMode' = m
    /\ UNCHANGED <<homeVars, validation, selectedPath, req, exports, preflight>>
    /\ sent' = <<>>
    /\ last' = "none"
    /\ recv' = None
    /\ before' = KeptBefore
    /\ UNCHANGED editorVars
    /\ UNCHANGED pureVars

\* the Code button, and the Diff button that exists when oldFiles is given
setViewMode(m) ==
    /\ View(files) = "files"
    /\ m # viewMode
    /\ m = "diff" => oldFiles # None
    /\ viewMode' = m
    /\ UNCHANGED <<homeVars, validation, selectedPath, req, exports, preflight>>
    /\ sent' = <<>>
    /\ last' = "none"
    /\ recv' = None
    /\ before' = KeptBefore
    /\ UNCHANGED editorVars
    /\ UNCHANGED pureVars

\* CodePreview line 209: the read-only DiffEditor is shown
DiffShown == viewMode = "diff" /\ oldFiles # None

\* line 160: selectedPath || "" (a path is selected whenever this is read)
currentPath == Val(selectedPath)

\* mutant: the original content is read from the File Map
originalContent_FromFiles == GetOrEmpty(files, currentPath)

\* line 161: oldFiles ? oldFiles[currentPath] || "" : ""
originalContent ==
    IF oldFiles # None THEN GetOrEmpty(Val(oldFiles), currentPath) ELSE ""

\* line 162: files[currentPath] || ""
modifiedContent == GetOrEmpty(files, currentPath)

\* mutant: the editor of the diff view forwards its changes too
onUpdateFile_InDiff(content) ==
    /\ View(files) = "files"
    /\ selectedPath # None
    /\ files' = Put(files, Val(selectedPath), content)
    /\ files' # files
    /\ UNCHANGED <<cps, loading, error, feedback, oldFiles, diff, req, exports>>
    /\ Render(FALSE, <<>>)
    /\ last' = "none"
    /\ recv' = None
    /\ before' = KeptBefore
    /\ UNCHANGED pureVars

\* typing in the Editor: onChange calls onUpdateFile(currentPath, val || ""),
\* and Home puts the content into the File Map (page.tsx line 181)
onUpdateFile(content) ==
    /\ View(files) = "files"
    /\ ~DiffShown
    /\ selectedPath # None
    /\ files' = Put(files, Val(selectedPath), content)
    /\ files' # files
    /\ UNCHANGED <<cps, loading, error, feedback, oldFiles, diff, req, exports>>
    /\ Render(FALSE, <<>>)
    /\ last' = "none"
    /\ recv' = None
    /\ before' = KeptBefore
    /\ UNCHANGED pureVars

-----------------------------------------------------------------------------
(* CPSPreview *)

\* part_000 lines 68-77.  The result is null when the walk throws.
updateNested(spec, path, value) ==
    LET r == SetPath(spec.kids, path, value)
    IN  IF r.ok THEN Some(Group(r.kids)) ELSE None

\* a control of the Config tab is changed
EditSpec(e) ==
    /\ View(files) = "spec"
    /\ cps # None
    /\ activeTab = "config"
    /\ UNCHANGED <<files, loading, error, feedback, oldFiles, diff, req, exports>>
    /\ LET newCps == updateNested(Val(cps), e.path, e.value)
       IN  IF newCps # None
           THEN /\ cps' = newCps
                /\ Render(TRUE, <<>>)
                /\ last' = "none"
                /\ recv' = None
                /\ before' = KeptBefore
                /\ UNCHANGED pureVars
           ELSE /\ cps' = cps
                /\ Render(FALSE, <<>>)
                /\ last' = "none"
                /\ recv' = None
                /\ before' = KeptBefore
                /\ UNCHANGED pureVars

\* a validation response arrives (part_000 lines 34-35): for the most
\* recently issued request when forLatest, for a superseded one otherwise
PreflightResponse(forLatest, valid) ==
    /\ View(files) = "spec"
    /\ IF forLatest THEN preflight.latest = "inflight" ELSE preflight.stale > 0
    /\ validation' = Some([valid |-> valid])
    /\ preflight' = IF forLatest
                    THEN [preflight EXCEPT !.latest = "answered", !.stored = "latest"]
                    ELSE [preflight EXCEPT !.stale = @ - 1, !.stored = "superseded"]
    /\ UNCHANGED <<homeVars, selectedPath, viewMode, req, exports>>
    /\ sent' = <<>>
    /\ last' = "none"
    /\ recv' = None
    /\ before' = KeptBefore
    /\ UNCHANGED editorVars
    /\ UNCHANGED pureVars

\* mutant: the catch of runValidation records the failure as the last error
PreflightTransportFail_SetsError(forLatest) ==
    /\ View(files) = "spec"
    /\ IF forLatest THEN preflight.latest = "inflight" ELSE preflight.stale > 0
    /\ preflight' = IF forLatest
                    THEN [preflight EXCEPT !.latest = "failed"]
                    ELSE [preflight EXCEPT !.stale = @ - 1]
    /\ error' = Some(TransportError)
    /\ UNCHANGED <<cps, files, loading, feedback, oldFiles, diff>>
    /\ UNCHANGED <<validation, selectedPath, viewMode, req, exports>>
    /\ sent' = <<>>
    /\ last' = "none"
    /\ recv' = None
    /\ before' = KeptBefore
    /\ UNCHANGED editorVars
    /\ UNCHANGED pureVars

\* a validation request fails in transport: console.error, nothing is set
PreflightTransportFail(forLatest) ==
    /\ View(files) = "spec"
    /\ IF forLatest THEN preflight.latest = "inflight" ELSE preflight.stale > 0
    /\ preflight' = IF forLatest
                    THEN [preflight EXCEPT !.latest = "failed"]
                    ELSE [preflight EXCEPT !.stale = @ - 1]
    /\ UNCHANGED <<homeVars, validation, selectedPath, viewMode, req, exports>>
    /\ sent' = <<>>
    /\ last' = "none"
    /\ recv' = None
    /\ before' = KeptBefore
    /\ UNCHANGED editorVars
    /\ UNCHANGED pureVars

\* the Config and JSON tabs (lines 92 and 98)
setActiveTab(tab) ==
    /\ View(files) = "spec"
    /\ cps # None
    /\ tab # activeTab
    /\ activeTab' = tab
    /\ UNCHANGED <<homeVars, validation, selectedPath, viewMode, req, exports,
                   preflight, costs, openapi, analyzing, analyses>>
    /\ sent' = <<>>
    /\ last' = "none"
    /\ recv' = None
    /\ before' = KeptBefore
    /\ UNCHANGED pureVars

\* mutant: the tab runs the analysis only while no cost estimate is held
openAnalysis_Cached(tab) ==
    /\ View(files) = "spec"
    /\ cps # None
    /\ tab = "openapi" => OpenapiFirst(Val(cps))
    /\ Len(analyses) < MaxAnalyses
    /\ activeTab' = tab
    /\ IF costs = None
       THEN /\ analyzing' = TRUE
            /\ analyses' = Append(analyses, [stage |-> "costs", cps |-> Val(cps)])
            /\ sent' = <<Request("estimate-costs", [cps |-> Val(cps)])>>
       ELSE /\ UNCHANGED <<analyzing, analyses>>
            /\ sent' = <<>>
    /\ UNCHANGED <<homeVars, validation, selectedPath, viewMode, req, exports,
                   preflight, costs, openapi>>
    /\ last' = "runAnalysis"
    /\ recv' = None
    /\ before' = KeptBefore
    /\ UNCHANGED pureVars

\* the Analysis tab (line 104) and the OpenAPI tab (lines 109-116, rendered
\* when openapi_first is set): setActiveTab(tab); runAnalysis().  runAnalysis
\* (lines 41-66) sets analyzing and sends the cost request with the cps of
\* this render.
openAnalysis(tab) ==
    /\ View(files) = "spec"
    /\ cps # None
    /\ tab = "openapi" => OpenapiFirst(Val(cps))
    /\ Len(analyses) < MaxAnalyses
    /\ activeTab' = tab
    /\ analyzing' = TRUE
    /\ analyses' = Append(analyses, [stage |-> "costs", cps |-> Val(cps)])
    /\ sent' = <<Request("estimate-costs", [cps |-> Val(cps)])>>
    /\ UNCHANGED <<homeVars, validation, selectedPath, viewMode, req, exports,
                   preflight, costs, openapi>>
    /\ last' = "runAnalysis"
    /\ recv' = None
    /\ before' = KeptBefore
    /\ UNCHANGED pureVars

\* the cost response arrives (lines 49-51): setCosts; then the preview
\* request when the cps of the call has openapi_first, else finally
CostResponse(i) ==
    /\ View(files) = "spec"
    /\ analyses[i].stage = "costs"
    /\ costs' = Some(CostsOf(analyses[i].cps))
    /\ IF OpenapiFirst(analyses[i].cps)
       THEN /\ analyses' = [analyses EXCEPT ![i].stage = "openapi"]
            /\ sent' = <<Request("openapi-preview", [cps |-> analyses[i].cps])>>
            /\ UNCHANGED analyzing
       ELSE /\ analyses' = Drop(analyses, i)
            /\ sent' = <<>>
            /\ analyzing' = FALSE
    /\ UNCHANGED <<homeVars, validation, selectedPath, viewMode, req, exports,
                   preflight, activeTab, openapi>>
    /\ last' = "costs"
    /\ recv' = costs'
    /\ before' = KeptBefore
    /\ UNCHANGED pureVars

\* the interface preview arrives (lines 59-60): setOpenapi, then finally
OpenapiResponse(i) ==
    /\ View(files) = "spec"
    /\ analyses[i].stage = "openapi"
    /\ openapi' = Some(OpenapiOf(analyses[i].cps))
    /\ analyses' = Drop(analyses, i)
    /\ analyzing' = FALSE
    /\ UNCHANGED <<homeVars, validation, selectedPath, viewMode, req, exports,
                   preflight, activeTab, costs>>
    /\ sent' = <<>>
    /\ last' = "none"
    /\ recv' = openapi'
    /\ before' = KeptBefore
    /\ UNCHANGED pureVars

\* either fetch of runAnalysis fails (lines 62-65): console.error, finally
AnalysisTransportFail(i) ==
    /\ View(files) = "spec"
    /\ analyses' = Drop(analyses, i)
    /\ analyzing' = FALSE
    /\ UNCHANGED <<homeVars, validation, selectedPath, viewMode, req, exports,
                   preflight, activeTab, costs, openapi>>
    /\ sent' = <<>>
    /\ last' = "none"
    /\ recv' = None
    /\ before' = KeptBefore
    /\ UNCHANGED pureVars

\* lines 225-255 and 257-269: the analysis a tab displays, or null when the
\* tab shows "Running analysis...", a placeholder, or another tab is open
Displayed ==
    IF View(files) = "spec" /\ cps # None /\ ~analyzing
    THEN IF activeTab = "analysis" THEN costs
         ELSE IF activeTab = "openapi" THEN openapi
         ELSE None
    ELSE None

-----------------------------------------------------------------------------
(* The specification *)

Analyze == \E text \in AnalyzeTexts : handleAnalyze(text)
AnalyzeDone == \E i \in 1..Len(req) : \E data \in AnalyzeResponses : AnalyzeResponse(i, data)
AnalyzeLost == \E i \in 1..Len(req) : AnalyzeTransportFail(i)
GenerateDone == \E i \in 1..Len(req) : \E data \in GenerateResponses(req[i]) : GenerateResponse(i, data)
GenerateLost == \E i \in 1..Len(req) : GenerateTransportFail(i)
Feedback == \E text \in FeedbackTexts : setFeedback(text)
RefineDone == \E i \in 1..Len(req) : \E data \in RefineResponses : RefineResponse(i, data)
RefineLost == \E i \in 1..Len(req) : RefineTransportFail(i)
Select == \E p \in AllPaths : setSelectedPath(p)
ViewMode == \E m \in {"code", "diff"} : setViewMode(m)
EditFile == \E c \in EditContents : onUpdateFile(c)
Edit == \E e \in UIEdits : EditSpec(e)
PreflightDone == \E l \in BOOLEAN : \E v \in BOOLEAN : PreflightResponse(l, v)
PreflightLost == \E l \in BOOLEAN : PreflightTransportFail(l)

Next ==
    \/ Analyze
    \/ AnalyzeDone
    \/ AnalyzeLost
    \/ handleGenerate
    \/ GenerateDone
    \/ GenerateLost
    \/ handleBack
    \/ Feedback
    \/ handleRefine
    \/ RefineDone
    \/ RefineLost
    \/ handleDownload
    \/ ExportResponse
    \/ ExportTransportFail
    \/ Select
    \/ ViewMode
    \/ EditFile
    \/ Edit
    \/ PreflightDone
    \/ PreflightLost

Spec == Init /\ [][Next]_vars

\* The Specification Editor with its four tabs, while the page stays in the
\* specification view (no generation) and the validation requests stay
\* unanswered, so that a behaviour changes the Specification MaxStale + 1
\* times at most.  Spec above is the page while the editor stays on its Config
\* tab.
Tab == \E tab \in {"config", "json"} : setActiveTab(tab)
OpenTab == \E tab \in {"analysis", "openapi"} : openAnalysis(tab)
CostDone == \E i \in 1..Len(analyses) : CostResponse(i)
OpenapiDone == \E i \in 1..Len(analyses) : OpenapiResponse(i)
AnalysisLost == \E i \in 1..Len(analyses) : AnalysisTransportFail(i)

NextEditor ==
    \/ Analyze
    \/ AnalyzeDone
    \/ AnalyzeLost
    \/ Edit
    \/ Tab
    \/ OpenTab
    \/ CostDone
    \/ OpenapiDone
    \/ AnalysisLost

SpecEditor == Init /\ [][NextEditor]_vars

-----------------------------------------------------------------------------
(* CodePreview: the explorer tree, the status index, the first selection *)

\* a.localeCompare(b) for the names of the model: letters compare without
\* regard to case first, so "main.py" sorts before "OLD_README.md"
NameRank == ("api.py" :> 1) @@ ("app" :> 2) @@ ("main.py" :> 3) @@
            ("OLD_README.md" :> 4) @@ ("README.md" :> 5) @@ ("tests" :> 6)

localeCompare(a, b) ==
    IF NameRank[a] < NameRank[b] THEN -1
    ELSE IF NameRank[a] > NameRank[b] THEN 1
    ELSE 0

\* paths.add(p) on a Set, read back in insertion order
AddPath(paths, p) ==
    IF \E i \in 1..Len(paths) : paths[i] = p THEN paths ELSE Append(paths, p)

RECURSIVE AddPaths(_, _)
AddPaths(paths, more) ==
    IF more = <<>> THEN paths
    ELSE AddPaths(AddPath(paths, Head(more)), Tail(more))

\* mutant: the paths of the Diff Result are left out
allPaths_KeysOnly(fm, d) == Keys(fm)

\* lines 133-139: the keys of the File Map, then the paths of the Diff Result
allPaths(fm, d) ==
    AddPaths(Keys(fm),
             IF d # None
             THEN [i \in 1..Len(Val(d).files) |-> Val(d).files[i].path]
             ELSE <<>>)

\* lines 27-34: the index in list of the node called name (0 when none)
FindNode(list, name) ==
    IF \E i \in 1..Len(list) : list[i].name = name
    THEN CHOOSE i \in 1..Len(list) : list[i].name = name
    ELSE 0

\* lines 40-52: the parts of one path, from parts[index] on, go into the
\* level list; a node is created at its first occurrence only
RECURSIVE InsertParts(_, _, _)
InsertParts(list, parts, index) ==
    LET part == parts[index]
        isFile == index = Len(parts)
        created == [name |-> part,
                    path |-> SubSeq(parts, 1, index),
                    type |-> IF isFile THEN "file" ELSE "folder",
                    children |-> <<>>]
        level == IF FindNode(list, part) = 0 THEN Append(list, created) ELSE list
        at == FindNode(level, part)
    IN  IF isFile THEN level
        ELSE [level EXCEPT ![at].children = InsertParts(@, parts, index + 1)]

RECURSIVE InsertAll(_, _)
InsertAll(root, paths) ==
    IF paths = <<>> THEN root
    ELSE InsertAll(InsertParts(root, Head(paths), 1), Tail(paths))

\* mutant: the comparator looks at the names only
compare_ByName(a, b) == localeCompare(a.name, b.name)

\* lines 57-60: the comparator of sortTree
compare(a, b) ==
    IF a.type = b.type THEN localeCompare(a.name, b.name)
    ELSE IF a.type = "folder" THEN -1 ELSE 1

\* x goes behind the elements that do not compare greater (a stable sort)
InsertSorted(sorted, x) ==
    LET k == Cardinality({i \in 1..Len(sorted) : compare(sorted[i], x) <= 0})
    IN  SubSeq(sorted, 1, k) \o <<x>> \o SubSeq(sorted, k + 1, Len(sorted))

\* nodes.sort(compare)
RECURSIVE SortNodes(_)
SortNodes(nodes) ==
    IF nodes = <<>> THEN <<>>
    ELSE InsertSorted(SortNodes(SubSeq(nodes, 1, Len(nodes) - 1)), nodes[Len(nodes)])

\* mutant: the levels are left in the order of creation
sortTree_Unsorted(nodes) ==
    nodes

\* lines 56-65
RECURSIVE sortTree(_)
sortTree(nodes) ==
    LET s == SortNodes(nodes)
    IN  [i \in 1..Len(s) |-> [s[i] EXCEPT !.children = sortTree(@)]]

\* lines 24-68
buildTree(paths) == sortTree(InsertAll(<<>>, paths))

\* mutant: the entries of removed files are skipped
fileStatus_NoRemoved(d) ==
    IF d = None THEN <<>>
    ELSE LET fs == Val(d).files
             listed == {fs[i].path : i \in {j \in 1..Len(fs) : fs[j].status # "removed"}}
         IN  [q \in listed |-> fs[CHOOSE i \in 1..Len(fs) : fs[i].path = q].status]

\* lines 143-150: status[f.path] = f.status for each entry in turn, so the
\* last entry of a path decides; the empty index without a Diff Result
fileStatus(d) ==
    IF d = None THEN <<>>
    ELSE LET fs == Val(d).files
             listed == {fs[i].path : i \in 1..Len(fs)}
             lastOf(q) == CHOOSE i \in 1..Len(fs) :
                             /\ fs[i].path = q
                             /\ \A j \in (i + 1)..Len(fs) : fs[j].path # q
         IN  [q \in listed |-> fs[lastOf(q)].status]

-----------------------------------------------------------------------------
(* Functions applied on their own.  The workflow stays as the page loads;  *)
(* input holds the arguments and output the result once it is computed.    *)

\* all sequences over S of length 1..n
SeqsUpTo(S, n) == UNION {[1..k -> S] : k \in 1..n}

\* the groups whose fields are leaves: every subset of keys, every value
FlatGroups(keys, values) ==
    {Group(kids) : kids \in UNION {[K -> {Leaf(v) : v \in values}] : K \in SUBSET keys}}

FieldKeys == {"a", "b", "c"}
FieldValues == {"1", "2", "false"}

\* Specifications of depth one and two: each top-level field is a leaf or a
\* group of leaves
UpdateSpecs ==
    {Group(kids) :
        kids \in UNION {[K -> {Leaf(v) : v \in FieldValues}
                              \cup FlatGroups({"b", "c"}, FieldValues)]
                        : K \in SUBSET {"a", "b"}}}

UpdateInputs ==
    [cps : UpdateSpecs, path : SeqsUpTo(FieldKeys, MaxPathLen), value : {Leaf("v")}]

InitUpdateNested ==
    /\ Mounted
    /\ input \in UpdateInputs
    /\ output = None

\* updateNested(path, value) is called with cps held
ApplyUpdateNested ==
    /\ output = None
    /\ output' = Some(updateNested(input.cps, input.path, input.value))
    /\ UNCHANGED <<input, workflowVars>>

SpecUpdateNested == InitUpdateNested /\ [][ApplyUpdateNested]_vars

\* updateNested on objects.  A Specification is a JavaScript object whose
\* nested groups are objects of their own, held by reference: the heap maps
\* an address to the fields of the object there, a field being a leaf or a
\* reference.  The objects of the Specification held before the call have
\* the path from its root as their address.
Ref(a) == [kind |-> "ref", val |-> a]

OldRoot == <<>>

\* the object made by { ...cps } (line 69)
NewRoot == <<"#new">>

\* the object made by current[path[i]] = {} at index i of the loop (line 72)
Fresh(path, i) == <<"#fresh">> \o SubSeq(path, 1, i)

\* the paths of the groups of a tree
RECURSIVE GroupPaths(_)
GroupPaths(node) ==
    IF node.kind = "leaf" THEN {}
    ELSE {<<>>} \cup
         UNION {{<<k>> \o q : q \in GroupPaths(node.kids[k])} : k \in DOMAIN node.kids}

\* the objects of a Specification as they are held before the call
HeapOf(spec) ==
    [a \in GroupPaths(spec) |->
        LET g == Val(FieldAt(spec, a))
        IN  [k \in DOMAIN g.kids |->
                IF g.kids[k].kind = "group" THEN Ref(a \o <<k>>) ELSE g.kids[k]]]

\* the heap with the object at address a replaced (or created)
Store(heap, a, obj) ==
    [x \in (DOMAIN heap) \cup {a} |-> IF x = a THEN obj ELSE heap[x]]

\* the tree of values seen from the object at address a
RECURSIVE Deref(_, _)
Deref(heap, a) ==
    Group([k \in DOMAIN heap[a] |->
              IF heap[a][k].kind = "ref" THEN Deref(heap, heap[a][k].val)
              ELSE heap[a][k]])

\* lines 70-75: current starts at the copy; at each key but the last a
\* missing or falsy field is set to a new empty object and current moves to
\* the object the field refers to, which is the very object the previous
\* Specification refers to when the field was there; the last key is
\* assigned in current.  ok is FALSE when current becomes a truthy
\* primitive: the next assignment throws.
RECURSIVE WalkObjects(_, _, _, _, _)
WalkObjects(heap, current, path, i, value) ==
    LET k == path[i] IN
    IF i = Len(path)
    THEN [ok |-> TRUE, heap |-> Store(heap, current, SetKey(heap[current], k, value))]
    ELSE LET missing == ~(k \in DOMAIN heap[current]
                          /\ (heap[current][k].kind = "ref"
                              \/ Truthy(heap[current][k])))
             h1 == IF missing
                   THEN Store(Store(heap, Fresh(path, i), <<>>), current,
                              SetKey(heap[current], k, Ref(Fresh(path, i))))
                   ELSE heap
             slot == h1[current][k]
         IN  IF slot.kind = "leaf"
             THEN [ok |-> FALSE, heap |-> h1]
             ELSE WalkObjects(h1, slot.val, path, i + 1, value)

\* lines 68-77 on the heap: the shallow copy, then the walk.  The value is
\* a primitive (the controls of the Config tab set strings and booleans).
updateNestedObjects(spec, path, value) ==
    LET h0 == HeapOf(spec)
        r == WalkObjects(Store(h0, NewRoot, h0[OldRoot]), NewRoot, path, 1, value)
    IN  [threw |-> ~r.ok, heap |-> r.heap]

\* updateNested(path, value) is called with cps held; the objects after it
ApplyUpdateObjects ==
    /\ output = None
    /\ output' = Some(updateNestedObjects(input.cps, input.path, input.value))
    /\ UNCHANGED <<input, workflowVars>>

SpecUpdateObjects == InitUpdateNested /\ [][ApplyUpdateObjects]_vars

\* the paths, statuses and contents CodePreview is given on its own
ExplorerPaths == {<<"main.py">>, <<"README.md">>, <<"app">>,
                  <<"app", "main.py">>, <<"app", "OLD_README.md">>,
                  <<"tests", "app", "api.py">>}
DiffStatuses == {"added", "removed"}

\* the sequences of at most n elements of S, without repetition
DistinctSeqs(S, n) ==
    {<<>>} \cup {q \in SeqsUpTo(S, n) : \A i, j \in 1..Len(q) : q[i] = q[j] => i = j}

ExplorerFileMaps ==
    {[i \in 1..Len(q) |-> Entry(q[i], "text")] : q \in DistinctSeqs(ExplorerPaths, MaxPaths)}

ExplorerDiffs ==
    {None} \cup
    {Some([files |-> [i \in 1..Len(q) |-> [path |-> q[i], status |-> st[i]]]]) :
        <<q, st>> \in {<<q, st>> \in DistinctSeqs(ExplorerPaths, MaxPaths)
                                      \X ({<<>>} \cup SeqsUpTo(DiffStatuses, MaxPaths)) :
                          Len(q) = Len(st)}}

InitCodePreview ==
    /\ Mounted
    /\ input \in {in \in [files : ExplorerFileMaps, diff : ExplorerDiffs] :
                    Len(in.files) + (IF in.diff = None THEN 0
                                     ELSE Len(Val(in.diff).files)) <= MaxPaths}
    /\ output = None

\* the first render of CodePreview with the props files and diff: the memos
\* of lines 125-150, nothing being selected yet
RenderCodePreview ==
    /\ output = None
    /\ output' = Some([allPaths |-> allPaths(input.files, input.diff),
                       fileTree |-> buildTree(allPaths(input.files, input.diff)),
                       fileStatus |-> fileStatus(input.diff),
                       selectedPath |-> IF Len(Keys(input.files)) > 0
                                        THEN Some(Preferred(input.files))
                                        ELSE None])
    /\ UNCHANGED <<input, workflowVars>>

SpecCodePreview == InitCodePreview /\ [][RenderCodePreview]_vars

-----------------------------------------------------------------------------
(* Properties *)

\* the message a failed step recorded: err.message of the transport, or the
\* text the collaborator reported
Transport(r) == "transport" \in DOMAIN Val(r)

\* C1: every generate action sends the Specification alone to the
\* first-generation collaborator when no previous File Map is held, and the
\* Specification with exactly the previous File Map held at that moment to
\* the regeneration collaborator when one is held; nothing else decides.
C1_GenerateKeyedOnOldFiles ==
    [][last' = "generate" =>
          /\ cps # None
          /\ IF oldFiles = None
             THEN sent' = <<Request("generate", Val(cps))>>
             ELSE sent' = <<Request("regenerate",
                                    [cps |-> Val(cps), old_files |-> Val(oldFiles)])>>
          /\ req' = Append(req, sent'[1].endpoint)]_vars

\* a regeneration request has just been issued, carrying an edited File Map
C1_Witness ==
    /\ last = "generate"
    /\ oldFiles # None
    /\ sent[1].endpoint = "regenerate"
    /\ sent[1].body.old_files = Val(oldFiles)
    /\ \E i \in 1..Len(Val(oldFiles)) : Val(oldFiles)[i].content = "edited"

\* C2 (as claimed): when a generate action has failed, the File Map, the
\* previous File Map and the Diff Result are what they were immediately
\* before the generate action was issued.
C2_FailedGenerateRestores ==
    last = "generateFail" =>
        /\ files = Val(before).files
        /\ oldFiles = Val(before).oldFiles
        /\ diff = Val(before).diff

\* C3: a back action from the files view makes the File Map held at that
\* moment the previous File Map, empties the File Map, clears the Diff
\* Result, leaves Specification, feedback and last error alone, and the
\* specification view is shown again.
C3_BackDemotes ==
    [][last' = "back" =>
          /\ View(files) = "files"
          /\ oldFiles' = Some(files)
          /\ files' = <<>>
          /\ diff' = None
          /\ UNCHANGED <<cps, feedback, error>>
          /\ View(files') = "spec"]_vars

\* back has just been taken from a regenerated, hand-edited File Map, with
\* feedback pending
C3_Witness ==
    /\ last = "back"
    /\ feedback # ""
    /\ oldFiles # None
    /\ \E i \in 1..Len(Val(oldFiles)) : Val(oldFiles)[i].content = "edited"

\* C4 (as claimed): once every validation response has arrived, the stored
\* validation result is the response to the most recently issued request.
C4_LastRequestWins ==
    (preflight.stale = 0 /\ preflight.latest = "answered") =>
        preflight.stored = "latest"

\* C5 (as claimed): a generate request is issued only when the validation
\* result stored is valid and answers the request for the Specification now
\* held, no validation request being outstanding.
C5_GenerateOnlyWhenValidated ==
    [][last' = "generate" =>
          /\ validation # None
          /\ Val(validation).valid
          /\ preflight.stored = "latest"
          /\ preflight.latest = "answered"
          /\ preflight.stale = 0]_vars

\* C6: at most one analyze, generate, regenerate or refine request is in
\* flight, and the loading flag is set exactly while one is (so none is
\* started while the flag is set).
C6_OneRequestWhileLoading ==
    /\ Len(req) <= 1
    /\ loading <=> Len(req) = 1

\* a regeneration is in flight; the refine it could race with is not
C6_Witness ==
    /\ req = <<"regenerate">>
    /\ loading
    /\ oldFiles # None

C8_EmptyFeedbackRejected ==
    [][(feedback = "" /\ last' \in {"refine", "refineRejected"}) =>
          /\ last' = "refineRejected"
          /\ sent' = <<>>
          /\ UNCHANGED <<loading, error, files, oldFiles, diff, feedback, req,
                         exports, cps>>]_vars

\* the button was pressed with no feedback while nothing was loading
C8_Witness ==
    /\ last = "refineRejected"
    /\ feedback = ""
    /\ ~loading
    /\ req = <<>>

\* C9: an export is triggered only while a non-empty File Map is held,
\* issues exactly one archive request carrying that File Map, and neither it
\* nor its success or failure changes Specification, File Map, previous File
\* Map, Diff Result, loading flag or the view shown.
C9_ExportFrame ==
    [][/\ last' = "export" =>
              /\ Len(files) > 0
              /\ sent' = <<Request("export", [files |-> files])>>
              /\ exports' = exports + 1
       /\ last' \in {"export", "exportOk", "exportFail"} =>
              /\ UNCHANGED <<cps, files, oldFiles, diff, loading>>
              /\ View(files') = View(files)]_vars

\* an export has failed while a refine was in flight
C9_Witness ==
    /\ last = "exportFail"
    /\ loading
    /\ Len(files) > 0
    /\ diff # None

\* C10: a successful analyze puts the returned Specification in place of the
\* held one; a failed analyze records its error and leaves Specification,
\* File Map, previous File Map and Diff Result alone.
C10_AnalyzeOutcome ==
    [][/\ last' = "analyzeOk" =>
              /\ cps' = Val(recv').spec
              /\ cps' # None
       /\ last' = "analyzeFail" =>
              /\ error' = Some(IF Transport(recv') THEN Val(recv').transport
                               ELSE Val(Val(recv').error))
              /\ UNCHANGED <<cps, files, oldFiles, diff>>]_vars

\* an analyze has failed while a Specification and a previous File Map were
\* held
C10_Witness ==
    /\ last = "analyzeFail"
    /\ error = Some("boom")
    /\ cps # None
    /\ oldFiles # None

\* an analyze has failed from Idle: there is still no Specification
C10_WitnessIdle ==
    /\ last = "analyzeFail"
    /\ cps = None
    /\ error # None

IsPrefix(p, q) == Len(p) <= Len(q) /\ SubSeq(q, 1, Len(p)) = p

\* C11: for every Specification, every non-empty field path and every
\* value, the structured update yields a Specification whose field at the
\* path is the value (the groups above it exist), and every field that is
\* neither on the path nor below its end is as it was.
C11_UpdateSetsField ==
    output # None =>
        LET newCps == Val(output)
        IN  /\ newCps # None
            /\ FieldAt(Val(newCps), input.path) = Some(input.value)
            /\ \A q \in SeqsUpTo(FieldKeys, MaxPathLen) :
                    ~IsPrefix(q, input.path) /\ ~IsPrefix(input.path, q)
                        => FieldAt(Val(newCps), q) = FieldAt(input.cps, q)

\* C12: a cost estimate or an interface preview that is displayed was
\* computed for the Specification held now: an edit (or any other change)
\* of the Specification leaves no analysis of an earlier Specification on
\* display.
C12_NoStaleAnalysis ==
    Displayed # None =>
        Val(Displayed) = IF activeTab = "analysis" THEN CostsOf(Val(cps))
                         ELSE OpenapiOf(Val(cps))

\* C13 (as claimed): opening the Analysis or the OpenAPI tab while the cost
\* estimate held is the one of the Specification held now issues no request:
\* the cached result is reused.
C13_ReopenReusesCache ==
    [][(/\ last' = "runAnalysis"
        /\ costs # None
        /\ Val(costs) = CostsOf(Val(cps)))
       => sent' = <<>>]_vars

\* C13 (amended): every click on the Analysis tab or the OpenAPI tab issues
\* one cost-estimate request for the Specification held, whatever is held
\* from earlier clicks, and no other step issues one; the interface-preview
\* request is issued when the cost response of a click arrives and the
\* Specification of that click has openapi_first set, and by no other step.
C13_RequestPerOpen ==
    [][/\ last' = "runAnalysis"
          => sent' = <<Request("estimate-costs", [cps |-> Val(cps)])>>
       /\ \A i \in 1..Len(sent') :
             /\ sent'[i].endpoint = "estimate-costs" => last' = "runAnalysis"
             /\ sent'[i].endpoint = "openapi-preview"
                   => last' = "costs" /\ OpenapiFirst(sent'[i].body.cps)
       /\ (last' = "costs" /\ OpenapiFirst(Val(recv').estimate_for))
          => sent' = <<Request("openapi-preview",
                               [cps |-> Val(recv').estimate_for])>>]_vars

\* the tab is clicked again while the estimate of the Specification held is
\* there, and the request goes out again
C13_Witness ==
    /\ last = "runAnalysis"
    /\ costs # None
    /\ Val(costs) = CostsOf(Val(cps))
    /\ sent = <<Request("estimate-costs", [cps |-> Val(cps)])>>

\* the nodes of a tree, each with the names from the root down to it
RECURSIVE Walk(_, _)
Walk(list, above) ==
    UNION {{[node |-> list[i], names |-> Append(above, list[i].name)]}
           \cup Walk(list[i].children, Append(above, list[i].name))
           : i \in 1..Len(list)}

\* the sibling lists of a tree: the root and the children of every folder
RECURSIVE Levels(_)
Levels(list) ==
    {list} \cup UNION {Levels(list[i].children)
                        : i \in {j \in 1..Len(list) : list[j].type = "folder"}}

\* the paths CodePreview was given: File Map keys and Diff Result paths
GivenPaths ==
    KeySet(input.files) \cup
    (IF input.diff = None THEN {}
     ELSE {Val(input.diff).files[i].path : i \in 1..Len(Val(input.diff).files)})

\* no path is a folder prefix of another path
WellFormed(paths) == \A q, r \in paths : q # r => ~IsPrefix(q, r)

\* C14: for a File Map and an optional Diff Result whose paths are well
\* formed, the paths of the file nodes of the tree are exactly the File Map
\* keys and the Diff Result paths together, and the path of every node is
\* the names of its ancestors followed by its own name.
C14_TreeHasAllPaths ==
    (output # None /\ WellFormed(GivenPaths)) =>
        LET nodes == Walk(Val(output).fileTree, <<>>)
        IN  /\ {w.node.path : w \in {x \in nodes : x.node.type = "file"}} = GivenPaths
            /\ \A w \in nodes : w.node.path = w.names

\* a removed file that only the Diff Result lists is in the tree, below a
\* folder
C14_Witness ==
    /\ output # None
    /\ WellFormed(GivenPaths)
    /\ \E w \in Walk(Val(output).fileTree, <<>>) :
          /\ w.node.type = "file"
          /\ Len(w.node.path) > 1
          /\ w.node.path \notin KeySet(input.files)
          /\ \E i \in 1..Len(Val(input.diff).files) :
                Val(input.diff).files[i] = [path |-> w.node.path, status |-> "removed"]

\* C15: at every level of a tree the builder produced, no two siblings have
\* the same name, no folder comes after a file, and the folders, and the
\* files, are in ascending order of their names.
C15_LevelsSorted ==
    output # None =>
        \A level \in Levels(Val(output).fileTree) :
            \A i, j \in 1..Len(level) :
                i < j =>
                    /\ level[i].name # level[j].name
                    /\ ~(level[i].type = "file" /\ level[j].type = "folder")
                    /\ level[i].type = level[j].type
                          => NameRank[level[i].name] < NameRank[level[j].name]

\* a level was created as a file, then a folder whose name sorts later, then
\* a file whose name sorts first, and came out folder first
C15_Witness ==
    /\ output # None
    /\ Val(output).allPaths = <<<<"main.py">>, <<"tests", "app", "api.py">>, <<"app">>>>
    /\ Len(Val(output).fileTree) = 3
    /\ Val(output).fileTree[1].name = "tests"
    /\ Val(output).fileTree[2].name = "app"

\* the orders a list of paths can be presented in
Orders(paths) ==
    {q \in [1..Len(paths) -> {paths[i] : i \in 1..Len(paths)}] :
        \A i, j \in 1..Len(q) : q[i] = q[j] => i = j}

\* C16 (as claimed): building from the same paths in any other order gives
\* the same tree.
C16_OrderIndependent ==
    output # None =>
        \A q \in Orders(Val(output).allPaths) : buildTree(q) = Val(output).fileTree

\* C16 (amended): for well-formed paths (none a folder prefix of another),
\* building from the same paths in any other order gives the same tree.
C16_OrderIndependentWellFormed ==
    (output # None /\ WellFormed(GivenPaths)) =>
        \A q \in Orders(Val(output).allPaths) : buildTree(q) = Val(output).fileTree

\* well-formed paths whose order of creation is not the order of the tree
C16_Witness ==
    /\ output # None
    /\ WellFormed(GivenPaths)
    /\ Len(Val(output).allPaths) >= 2
    /\ Val(output).fileTree # InsertAll(<<>>, Val(output).allPaths)

\* C17: the status index holds, for every path the Diff Result lists, the
\* status listed for it, and nothing for any other path; without a Diff
\* Result it is empty; building it leaves the File Map and the Diff Result
\* as they were.
C17_StatusIndex ==
    [][output' # None =>
        LET index == Val(output').fileStatus
        IN  /\ input' = input
            /\ IF input.diff = None
               THEN DOMAIN index = {}
               ELSE LET listed == Val(input.diff).files
                    IN  /\ DOMAIN index = {listed[i].path : i \in 1..Len(listed)}
                        /\ \A i \in 1..Len(listed) :
                              index[listed[i].path] = listed[i].status]_vars

\* an added and a removed file are listed, and a File Map key is not
C17_Witness ==
    /\ output # None
    /\ input.diff # None
    /\ {Val(input.diff).files[i].status : i \in 1..Len(Val(input.diff).files)}
          = {"added", "removed"}
    /\ \E k \in KeySet(input.files) : k \notin DOMAIN Val(output).fileStatus

\* C18: given a non-empty File Map and no selection, the browser selects a
\* key ending in README.md when there is one, else a key ending in main.py
\* when there is one, else the first key; the path selected is a key.
C18_InitialSelection ==
    (output # None /\ Len(input.files) > 0) =>
        LET sel == Val(output).selectedPath
            keys == KeySet(input.files)
            readmes == {k \in keys : EndsWith(k, "README.md")}
            mains == {k \in keys : EndsWith(k, "main.py")}
        IN  /\ sel # None
            /\ Val(sel) \in keys
            /\ readmes # {} => Val(sel) \in readmes
            /\ (readmes = {} /\ mains # {}) => Val(sel) \in mains
            /\ (readmes = {} /\ mains = {}) => Val(sel) = input.files[1].path

\* main.py is the first key and a key ending in README.md comes later
C18_Witness ==
    /\ output # None
    /\ Len(input.files) > 1
    /\ input.files[1].path = <<"main.py">>
    /\ Val(output).selectedPath = Some(<<"app", "OLD_README.md">>)

\* C19: while the browser stays open, a selection that is held changes only
\* by a click on a file of the explorer: a refine that replaces the File
\* Map, an edit in place, a change of the view mode and any other re-render
\* leave it alone (the initial-selection policy acts only when nothing is
\* selected).
C19_SelectionKept ==
    [][(/\ selectedPath # None
        /\ View(files') = "files"
        /\ selectedPath' # selectedPath)
       => /\ UNCHANGED <<homeVars, viewMode>>
          /\ selectedPath' # None
          /\ Val(selectedPath') \in AllPaths]_vars

\* the user's selection is not the preferred path, and a refine has just
\* replaced the File Map
C19_Witness ==
    /\ last = "refineOk"
    /\ View(files) = "files"
    /\ selectedPath # None
    /\ selectedPath # Some(Preferred(files))

\* C20: the side-by-side diff is on display only when a previous File Map
\* exists, and the view mode is "diff" only then (the Diff button exists
\* only with a previous File Map).
C20_DiffNeedsOldFiles ==
    /\ DiffShown => oldFiles # None
    /\ viewMode = "diff" => oldFiles # None

\* the diff is on display in the files view
C20_Witness ==
    /\ View(files) = "files"
    /\ DiffShown
    /\ selectedPath # None

\* C21: the current content shown for the selected path is the File Map's
\* content for it, or the empty text when the path is not in the File Map;
\* the original content is the previous File Map's content for it, or the
\* empty text when the path is absent there or no previous File Map is held.
C21_ContentShown ==
    (View(files) = "files" /\ selectedPath # None) =>
        LET sel == Val(selectedPath)
            In(fm, text) ==
                \/ \E i \in 1..Len(fm) : fm[i] = Entry(sel, text)
                \/ (\A i \in 1..Len(fm) : fm[i].path # sel) /\ text = ""
        IN  /\ In(files, modifiedContent)
            /\ IF oldFiles = None THEN originalContent = ""
               ELSE In(Val(oldFiles), originalContent)

\* an added file is shown in the diff view: empty original, non-empty current
C21_Witness ==
    /\ View(files) = "files"
    /\ DiffShown
    /\ selectedPath # None
    /\ Val(selectedPath) \notin KeySet(Val(oldFiles))
    /\ Val(selectedPath) \in KeySet(files)
    /\ originalContent = ""
    /\ modifiedContent # ""

\* C22: an edit in the File Browser happens in code mode only and replaces the
\* content of exactly the selected path, leaving the other paths, the previous
\* File Map and the Diff Result alone; selecting a path or toggling the view
\* mode never changes the File Map and never issues a request.
C22_BrowserFrame ==
    [][/\ (last' = "none" /\ View(files) = "files" /\ files' # files)
          => /\ ~DiffShown
             /\ selectedPath # None
             /\ \E c \in EditContents :
                   \E i \in 1..Len(files') :
                       files'[i] = Entry(Val(selectedPath), c)
             /\ KeySet(files') = KeySet(files) \cup {Val(selectedPath)}
             /\ \A q \in KeySet(files) \ {Val(selectedPath)} :
                   Get(files', q) = Get(files, q)
             /\ UNCHANGED <<oldFiles, diff, cps>>
             /\ sent' = <<>>
       /\ (/\ View(files) = "files"
           /\ View(files') = "files"
           /\ last' = "none"
           /\ (selectedPath' # selectedPath \/ viewMode' # viewMode))
          => /\ files' = files
             /\ sent' = <<>>]_vars

\* a file of a regenerated project has been edited in code mode
C22_Witness ==
    /\ View(files) = "files"
    /\ last = "none"
    /\ oldFiles # None
    /\ diff # None
    /\ ~DiffShown
    /\ selectedPath # None
    /\ Val(selectedPath) \in KeySet(files)
    /\ Get(files, Val(selectedPath)) \in EditContents
    /\ Len(files) > 1

\* C23: on a successful generate the File Map is the response's file map (its
\* files key when present, the whole payload otherwise); a response carrying a
\* Diff Result records it and the state is Regenerated, otherwise the Diff
\* Result is absent and the state is FilesReady; after a regeneration whose
\* diff lists one added and one modified path the Diff Status Index marks
\* exactly those two paths.
C23_GenerateOutcome ==
    [][last' = "generateOk" =>
          LET data == Val(recv')
          IN  /\ files' = (IF data.files # None THEN Val(data.files) ELSE data.rest)
              /\ IF data.diff # None
                 THEN /\ diff' = data.diff
                      /\ WorkflowState' = "Regenerated"
                 ELSE /\ diff' = None
                      /\ WorkflowState' = "FilesReady"
              /\ data.diff = Some(D1) =>
                    /\ DOMAIN fileStatus(diff') = {<<"main.py">>, <<"README.md">>}
                    /\ fileStatus(diff')[<<"main.py">>] = "modified"
                    /\ fileStatus(diff')[<<"README.md">>] = "added"]_vars

\* C24: every failed analyze, generate, refine or export is surfaced: in the
\* state that follows the failure the last error is non-null and is displayed
\* in the view the user is then in.
C24_FailureSurfaced ==
    [][last' \in {"analyzeFail", "generateFail", "refineFail", "exportFail"} =>
          /\ error' # None
          /\ ErrorShown']_vars

\* C25: every analyze, generate or refine response, success or failure, leaves
\* the loading flag false; the flag is never set with no request in flight;
\* and whenever it is false the user can trigger an action (analyze from the
\* specification view, back from the files view).
C25_LoadingEnds ==
    /\ [][last' \in {"analyzeOk", "analyzeFail", "generateOk", "generateFail",
                     "refineOk", "refineFail"} => ~loading']_vars
    /\ [](loading => Len(req) > 0)
    /\ [](~loading => ENABLED (Analyze \/ handleBack))

\* a generate request has failed and the page is ready for the retry
C25_Witness ==
    /\ last = "generateFail"
    /\ ~loading
    /\ Len(req) = 0
    /\ error # None
    /\ ~GenerateDisabled
    /\ cps # None

\* C26: every step that changes the held Specification to a non-null value
\* (a successful analyze or a field edit) issues exactly one validation
\* request, and it carries the new Specification; the step at which the
\* latest validation request fails in transport leaves the last error, the
\* stored validation result and the rest of the workflow as they were.
C26_ValidationPerChange ==
    [][/\ (cps' # cps /\ cps' # None) =>
             /\ Cardinality({i \in 1..Len(sent') :
                                sent'[i].endpoint = "preflight"}) = 1
             /\ \E i \in 1..Len(sent') :
                   sent'[i] = Request("preflight", [cps |-> Val(cps')])
       /\ (preflight.latest = "inflight" /\ preflight'.latest = "failed") =>
             /\ error' = error
             /\ validation' = validation
             /\ UNCHANGED <<cps, files, loading, oldFiles, diff>>]_vars

\* a field edit has changed the Specification while the validation request
\* of the analyze was still in flight, and the request of the edit has failed
C26_Witness ==
    /\ cps # None
    /\ Val(cps) \notin ServerSpecs
    /\ preflight.latest = "failed"
    /\ preflight.stale > 0
    /\ error = None

\* C27: a held Diff Result implies a held previous File Map; the Diff Result is
\* absent after every back and after every start of a generate, and it becomes
\* present only at the step where a regeneration response carrying it arrives.
C27_DiffOnlyFromRegeneration ==
    /\ [](diff # None => oldFiles # None)
    /\ [][/\ last' \in {"back", "generate"} => diff' = None
          /\ (diff' # diff /\ diff' # None) =>
                /\ last' = "generateOk"
                /\ \E i \in 1..Len(req) :
                      req[i] = "regenerate" /\ req' = Drop(req, i)
                /\ Val(recv').diff = diff']_vars

\* a regeneration has been answered with a Diff Result
C27_Witness ==
    /\ last = "generateOk"
    /\ diff = Some(D1)
    /\ oldFiles # None
    /\ View(files) = "files"

\* C28: a held previous File Map is never returned to absent; it changes only
\* at a back, to the File Map shown then; and every generate issued while it
\* is held, whatever Specification is held by then, sends the Specification
\* and that previous File Map to the regeneration collaborator.
C28_OldFilesKept ==
    [][/\ oldFiles # None => oldFiles' # None
       /\ oldFiles' # oldFiles => (last' = "back" /\ oldFiles' = Some(files))
       /\ (last' = "generate" /\ oldFiles # None) =>
             /\ sent'[1] = Request("regenerate",
                                   [cps |-> Val(cps), old_files |-> Val(oldFiles)])
             /\ req' = Append(req, "regenerate")]_vars

\* with a previous File Map held, the generate for the Specification SpecB
\* has gone to the regeneration collaborator
C28_Witness ==
    /\ last = "generate"
    /\ oldFiles # None
    /\ before # None
    /\ Val(before).cps = Some(SpecB)
    /\ sent[1].endpoint = "regenerate"
    /\ sent[1].body.cps = SpecB

\* C29: after a back the File Map stays empty until a generate or regenerate
\* response succeeds: an empty File Map becomes non-empty only at such a
\* response, never at the response of a refine issued before the back.
C29_BackKeepsFilesEmpty ==
    [][(Len(files) = 0 /\ Len(files') > 0) => last' = "generateOk"]_vars

\* C30: a generate request is issued only while a Specification is held, and
\* a held Specification is never returned to null by any step.
C30_SpecificationKept ==
    [][/\ last' = "generate" =>
             /\ cps # None
             /\ IF oldFiles = None
                THEN sent'[1].body = Val(cps)
                ELSE sent'[1].body.cps = Val(cps)
       /\ cps # None => cps' # None]_vars

\* after a generation and a back, a second analyze has failed and the
\* Specification of the first is still held
C30_Witness ==
    /\ last = "analyzeFail"
    /\ cps # None
    /\ oldFiles # None
    /\ error # None

\* C31: a refine that succeeds leaves the feedback text empty and the Refine
\* button disabled, and a refine request is issued only with non-empty
\* feedback, so a second refine needs new feedback; a refine that fails leaves
\* the feedback text as it was, and the button enabled when that text is not
\* empty and the files view is shown.
C31_FeedbackAfterRefine ==
    [][/\ last' = "refineOk" =>
             /\ feedback' = ""
             /\ RefineDisabled'
       /\ last' = "refine" => feedback # ""
       /\ last' = "refineFail" =>
             /\ feedback' = feedback
             /\ (feedback # "" /\ View(files') = "files") => ~RefineDisabled']_vars

\* a refine has succeeded: the files view is shown with an empty feedback box
C31_Witness ==
    /\ last = "refineOk"
    /\ View(files) = "files"
    /\ feedback = ""
    /\ RefineDisabled
    /\ ~loading

\* C32: the structured field update does not modify the Specification object
\* held before it: seen from the previous root, every field of every nested
\* group has the value it had before the call.
C32_PreviousUntouched ==
    output # None => Deref(Val(output).heap, OldRoot) = input.cps

====
